---- MODULE Spec2Model ----
(***************************************************************************)
(* Model of dataframe_to_autosize_excel.py:                                *)
(*   to_autosize_excel         the export operation (lines 9-115)          *)
(*   maximum_character_widths  the width calculator (lines 117-157)        *)
(*   excel_column_width        the width converter (lines 159-172)         *)
(*                                                                         *)
(* Three specifications share the variables:                               *)
(*   Spec         one call of to_autosize_excel, statement by statement    *)
(*   SpecWidths   calls of maximum_character_widths on bounded inputs      *)
(*   SpecConvert  calls of excel_column_width on bounded inputs            *)
(***************************************************************************)
EXTENDS Integers, Sequences, FiniteSets, TLC

(***************************************************************************)
(* Bounds of the model.                                                    *)
(***************************************************************************)
MaxCharWidth == 11
MaxFontHalf == 24

(***************************************************************************)
(* Binary64 arithmetic.  Python's float is an IEEE-754 double; the         *)
(* converter multiplies and rounds doubles, so its result is modelled bit  *)
(* for bit.  A natural number is a little-endian sequence of limbs in base *)
(* LimbBase with no zero top limb (zero is << >>); a positive double is    *)
(* [m, e] with value m * 2^e and m of exactly MantBits bits.               *)
(***************************************************************************)
LimbBits == 10
LimbBase == 1024
MantBits == 53
RatioShift == 80

RECURSIVE Pow2(_)
Pow2(k) == IF k = 0 THEN 1 ELSE 2 * Pow2(k - 1)

RECURSIVE ToLimbs(_)
ToLimbs(n) == IF n = 0 THEN << >> ELSE <<n % LimbBase>> \o ToLimbs(n \div LimbBase)

RECURSIVE ToInt(_)
ToInt(a) == IF a = << >> THEN 0 ELSE Head(a) + LimbBase * ToInt(Tail(a))

RECURSIVE StripTop(_)
StripTop(a) ==
    IF a = << >> THEN a
    ELSE IF a[Len(a)] = 0 THEN StripTop(SubSeq(a, 1, Len(a) - 1)) ELSE a

RECURSIVE MulSmallC(_, _, _)
MulSmallC(a, m, carry) ==
    IF a = << >> THEN ToLimbs(carry)
    ELSE LET t == Head(a) * m + carry
         IN  <<t % LimbBase>> \o MulSmallC(Tail(a), m, t \div LimbBase)

MulSmall(a, m) == StripTop(MulSmallC(a, m, 0))

RECURSIVE AddC(_, _, _)
AddC(a, b, carry) ==
    IF a = << >> /\ b = << >> THEN ToLimbs(carry)
    ELSE LET x == IF a = << >> THEN 0 ELSE Head(a)
             y == IF b = << >> THEN 0 ELSE Head(b)
             t == x + y + carry
         IN  <<t % LimbBase>>
               \o AddC(IF a = << >> THEN a ELSE Tail(a),
                       IF b = << >> THEN b ELSE Tail(b), t \div LimbBase)

Add(a, b) == StripTop(AddC(a, b, 0))

RECURSIVE MulBig(_, _)
MulBig(a, b) ==
    IF b = << >> THEN << >>
    ELSE LET rest == MulBig(a, Tail(b))
         IN  Add(MulSmall(a, Head(b)),
                 IF rest = << >> THEN rest ELSE <<0>> \o rest)

RECURSIVE DivSmallR(_, _)
DivSmallR(a, d) ==
    IF a = << >> THEN [q |-> << >>, r |-> 0]
    ELSE LET hi == DivSmallR(Tail(a), d)
             t  == hi.r * LimbBase + Head(a)
         IN  [q |-> <<t \div d>> \o hi.q, r |-> t % d]

DivSmall(a, d) == LET qr == DivSmallR(a, d) IN [q |-> StripTop(qr.q), r |-> qr.r]

RECURSIVE SmallBitLen(_)
SmallBitLen(n) == IF n = 0 THEN 0 ELSE 1 + SmallBitLen(n \div 2)

BitLen(a) == IF a = << >> THEN 0 ELSE (Len(a) - 1) * LimbBits + SmallBitLen(a[Len(a)])

ShiftLeft(a, k) ==
    IF a = << >> THEN a
    ELSE [i \in 1..(k \div LimbBits) |-> 0] \o MulSmall(a, Pow2(k % LimbBits))

\* a \div 2^k, with whether any of the k dropped bits was set
ShiftRight(a, k) ==
    LET drop  == IF k \div LimbBits < Len(a) THEN k \div LimbBits ELSE Len(a)
        low   == SubSeq(a, 1, drop)
        high  == SubSeq(a, drop + 1, Len(a))
        qr    == IF k \div LimbBits < Len(a)
                 THEN DivSmall(high, Pow2(k % LimbBits))
                 ELSE [q |-> << >>, r |-> 0]
    IN  [q |-> qr.q, inexact |-> (qr.r # 0) \/ (\E i \in 1..drop : low[i] # 0)]

IsOdd(a) == a # << >> /\ Head(a) % 2 = 1

\* (a + theta) / 2^k rounded to the nearest integer, ties to even, where
\* theta is a fraction in [0, 1) that is positive exactly when sticky
RoundShift(a, k, sticky) ==
    IF k = 0 THEN a
    ELSE LET b     == ShiftRight(a, k - 1)
             guard == IsOdd(b.q)
             q     == ShiftRight(b.q, 1).q
             rest  == b.inexact \/ sticky
         IN  IF guard /\ (rest \/ IsOdd(q)) THEN Add(q, <<1>>) ELSE q

FZero == [m |-> << >>, e |-> 0]

\* the double nearest to (n + theta) * 2^e
RoundToDouble(n, e, sticky) ==
    LET len == BitLen(n)
    IN  IF n = << >> THEN FZero
        ELSE IF len <= MantBits
             THEN [m |-> ShiftLeft(n, MantBits - len), e |-> e - (MantBits - len)]
             ELSE LET r == RoundShift(n, len - MantBits, sticky)
                  IN  IF BitLen(r) > MantBits
                      THEN [m |-> ShiftRight(r, 1).q, e |-> e + (len - MantBits) + 1]
                      ELSE [m |-> r, e |-> e + (len - MantBits)]

\* the double nearest to num / den (a decimal literal, or int / int)
FromRatio(num, den) ==
    LET qr == DivSmall(ShiftLeft(ToLimbs(num), RatioShift), den)
    IN  RoundToDouble(qr.q, 0 - RatioShift, qr.r # 0)

\* float(n) of a Python int
FromInt(n) == RoundToDouble(ToLimbs(n), 0, FALSE)

\* x * y of two doubles
FMul(x, y) ==
    IF x = FZero \/ y = FZero THEN FZero
    ELSE RoundToDouble(MulBig(x.m, y.m), x.e + y.e, FALSE)

\* round(x, 2): the double nearest to x's exact value rounded, ties to even,
\* to a whole number of hundredths
round2_trunc(x) ==
    IF x = FZero \/ x.e >= 0 THEN x
    ELSE FromRatio(ToInt(ShiftRight(MulSmall(x.m, 100), 0 - x.e).q), 100)

round2(x) ==
    IF x = FZero \/ x.e >= 0 THEN x
    ELSE FromRatio(ToInt(RoundShift(MulSmall(x.m, 100), 0 - x.e, FALSE)), 100)

\* the literal 0.118775 of line 172
ScaleNum == 118775
ScaleDen == 1000000
ScaleFactor == FromRatio(ScaleNum, ScaleDen)

\* the default fontsize=11 of line 159, in half points
DefaultFontHalf == 22

\* a font size given in half points, as a double
FontSize(h) == FromRatio(h, 2)

excel_column_width(charwidth, fontsize) ==
    FMul(FromInt(charwidth), round2(FMul(ScaleFactor, fontsize)))

(***************************************************************************)
(* Datasets.  A cell is text, a null (NaN / None) or an infinity; a frame  *)
(* is its column labels in order, its number of rows and, per column, the  *)
(* cells of that column.                                                   *)
(***************************************************************************)
MaxCols == 2
MaxRows == 2
MaxCells == 4

AllNames == <<"Name", "A", "B", "C">>
CellTexts == {"Al", "Bartholomew"}
LabelTexts == {"X", "Alpha"}

TextCell(t) == [kind |-> "text", text |-> t]
NullCell == [kind |-> "null", text |-> ""]
InfCell == [kind |-> "inf", text |-> ""]
CellValues == {TextCell(t) : t \in CellTexts} \cup {NullCell, InfCell}

ColumnsOf(n) == SubSeq(AllNames, 1, n)
Range(s) == {s[i] : i \in 1..Len(s)}

\* every frame of n columns and r rows over the cell values
Frames(n, r) ==
    {[columns |-> ColumnsOf(n), nrows |-> r, cells |-> c] :
        c \in [Range(ColumnsOf(n)) -> [1..r -> CellValues]]}

\* the frames of up to MaxCols columns, MaxRows rows and MaxCells cells
Shapes == {nr \in (0..MaxCols) \X (0..MaxRows) : nr[1] * nr[2] <= MaxCells}
DataFrames == UNION {Frames(nr[1], nr[2]) : nr \in Shapes}

(***************************************************************************)
(* maximum_character_widths.                                               *)
(***************************************************************************)
\* str(v) of a cell, as Series.astype(str) renders it
astype_str(cell) ==
    CASE cell.kind = "null" -> "nan"
      [] cell.kind = "inf"  -> "inf"
      [] OTHER              -> cell.text

\* a width: an integer, or the NaN that Series.max() gives for no rows
Width(n) == [nan |-> FALSE, n |-> n]
NaN == [nan |-> TRUE, n |-> 0]

RECURSIVE SeqMax(_)
SeqMax(s) ==
    IF Len(s) = 1 THEN s[1]
    ELSE LET m == SeqMax(Tail(s)) IN IF s[1] >= m THEN s[1] ELSE m

\* df[key].astype(str).str.len().max()
str_len_max(df, key) ==
    IF df.nrows = 0 THEN NaN
    ELSE Width(SeqMax([i \in 1..df.nrows |-> Len(astype_str(df.cells[key][i]))]))

\* Python's max(a, b) of an int and a width: b replaces a only when b > a
PyMax(a, b) == IF ~b.nan /\ b.n > a THEN b ELSE Width(a)

\* the alternate_headers argument
NoHeaders == [kind |-> "none", items |-> << >>, map |-> << >>]
ListHeaders(items) == [kind |-> "list", items |-> items, map |-> << >>]
DictHeaders(map) == [kind |-> "dict", items |-> << >>, map |-> map]
OtherHeaders == [kind |-> "other", items |-> << >>, map |-> << >>]

Raised(kind) == [kind |-> kind, value |-> << >>]
Returned(value) == [kind |-> "ok", value |-> value]
NotCalled == [kind |-> "none", value |-> << >>]

\* lines 136-149: the column -> label association
resolve_headers_lt(df, consider_headers, alternate_headers) ==
    CASE alternate_headers.kind = "list" ->
            IF Len(alternate_headers.items) < Len(df.columns)
            THEN Raised("ValueError")
            ELSE Returned([k \in {df.columns[i] : i \in 1..Len(df.columns)} |->
                     alternate_headers.items[
                         CHOOSE i \in 1..Len(df.columns) : df.columns[i] = k]])
      [] alternate_headers.kind = "dict" ->
            IF Cardinality(DOMAIN alternate_headers.map) < Len(df.columns)
            THEN Raised("ValueError")
            ELSE Returned(alternate_headers.map)
      [] alternate_headers.kind = "none" /\ consider_headers ->
            Returned([k \in Range(df.columns) |-> k])
      [] OTHER -> Raised("TypeError")

resolve_headers(df, consider_headers, alternate_headers) ==
    CASE alternate_headers.kind = "list" ->
            IF Len(alternate_headers.items) # Len(df.columns)
            THEN Raised("ValueError")
            ELSE Returned([k \in Range(df.columns) |->
                     alternate_headers.items[
                         CHOOSE i \in 1..Len(df.columns) : df.columns[i] = k]])
      [] alternate_headers.kind = "dict" ->
            IF Cardinality(DOMAIN alternate_headers.map) # Len(df.columns)
            THEN Raised("ValueError")
            ELSE Returned(alternate_headers.map)
      [] alternate_headers.kind = "none" /\ consider_headers ->
            Returned([k \in Range(df.columns) |-> k])
      [] OTHER -> Raised("TypeError")

\* lines 152-155: the width of one column
width_of_column_no_header(df, key, value, consider_headers) ==
    str_len_max(df, key)

width_of_column(df, key, value, consider_headers) ==
    IF consider_headers
    THEN PyMax(Len(value), str_len_max(df, key))
    ELSE str_len_max(df, key)

maximum_character_widths(df, consider_headers, alternate_headers) ==
    LET headers == resolve_headers(df, consider_headers, alternate_headers)
    IN  IF headers.kind # "ok" THEN headers
        ELSE IF \E key \in DOMAIN headers.value : key \notin Range(df.columns)
             THEN Raised("KeyError")
             ELSE Returned([key \in DOMAIN headers.value |->
                      width_of_column(df, key, headers.value[key], consider_headers)])

\* the alternate_headers arguments tried on a frame: absent, a list of up
\* to one label more than the columns, a dict keyed by column labels and
\* possibly one label that is no column, and a value of another type
ListsUpTo(n) == UNION {[1..k -> LabelTexts] : k \in 0..n}
DictKeySets(df) == SUBSET Range(SubSeq(AllNames, 1, Len(df.columns) + 1))
HeaderArgs(df) ==
    {NoHeaders, OtherHeaders}
      \cup {ListHeaders(l) : l \in ListsUpTo(Len(df.columns) + 1)}
      \cup UNION {{DictHeaders(m) : m \in [ks -> LabelTexts]} : ks \in DictKeySets(df)}

(***************************************************************************)
(* to_autosize_excel: its arguments and the operations on frames it uses.  *)
(***************************************************************************)
MaxLevels == 2
MaxStartCol == 1

\* an index level without a name (its name is None)
NoName == ""
IndexNames == {NoName, "id"}
IndexLabelTexts == {"key"}
IndexTexts == <<"0", "1", "2", "3">>
MissingName == "Z"

\* the columns / index_label arguments: None, a str, or a list
NoneArg == [kind |-> "none", items |-> << >>]
StrArg(t) == [kind |-> "str", items |-> <<t>>]
ListArg(l) == [kind |-> "list", items |-> l]
BoolArg == [kind |-> "bool", items |-> << >>]

\* bool(x) of such an argument
Truthy(arg) == arg.kind \in {"str", "list"} /\ arg.items # << >>

\* df.reset_index().columns: the index levels, named by their names (an
\* unnamed one "index", or "level_<i>" when there are several), then df's
reset_index_names(index_names) ==
    [i \in 1..Len(index_names) |->
        IF index_names[i] # NoName THEN index_names[i]
        ELSE IF Len(index_names) = 1 THEN "index"
        ELSE IF i = 1 THEN "level_0" ELSE IF i = 2 THEN "level_1" ELSE "level_2"]

\* df.reset_index(): the index levels become the leading columns
reset_index(df, index_names) ==
    LET names == reset_index_names(index_names)
    IN  [columns |-> names \o df.columns,
         nrows   |-> df.nrows,
         cells   |-> [c \in Range(names) \cup Range(df.columns) |->
                        IF c \in Range(df.columns) THEN df.cells[c]
                        ELSE [i \in 1..df.nrows |-> TextCell(IndexTexts[i])]]]

\* df[list(columns)]
select_columns(df, names) ==
    [columns |-> names, nrows |-> df.nrows, cells |-> [c \in Range(names) |-> df.cells[c]]]

\* lines 76-93: the labels of the written columns
resolve_labels(columns, index, index_label, data, index_names) ==
    IF columns.kind = "bool"
    THEN IF index
         THEN Returned(reset_index(data, index_names).columns)
         ELSE Returned(data.columns)
    ELSE IF columns.kind # "list" THEN Raised("TypeError")
    ELSE IF index /\ Truthy(index_label)
         THEN Returned(index_label.items \o columns.items)
    ELSE IF index /\ ~Truthy(index_label)
         THEN Returned([i \in 1..Len(index_names) |-> index_names[i]] \o columns.items)
    ELSE Returned(columns.items)

\* the frames exported: one row, at least one column
ExportFrames == {f \in DataFrames : f.nrows = 1 /\ Len(f.columns) >= 1}

RECURSIVE Perms(_)
Perms(S) ==
    IF S = {} THEN {<< >>}
    ELSE UNION {{<<x>> \o p : p \in Perms(S \ {x})} : x \in S}

\* the columns arguments tried on a frame: None, every ordering of every
\* non-empty subset of its columns, and one list naming a missing column
\* (a bool, the only value that takes the branch of lines 77-82, is no
\* Sequence[str] and is not tried: list(True) already fails at line 66)
ColumnArgs(df) ==
    {NoneArg, ListArg(<<MissingName>>)}
      \cup {ListArg(p) : p \in UNION {Perms(S) : S \in (SUBSET Range(df.columns)) \ {{}}}}

IndexLabelArgs ==
    {NoneArg}
      \cup {StrArg(t) : t \in IndexLabelTexts}
      \cup {ListArg(l) : l \in UNION {[1..k -> IndexLabelTexts] : k \in 1..MaxLevels}}

IndexNameLists == UNION {[1..k -> IndexNames] : k \in 1..MaxLevels}

(***************************************************************************)
(* State.                                                                  *)
(***************************************************************************)
VARIABLES
    cv_charwidth,   \* excel_column_width: the charwidth argument
    cv_fonthalf,    \* excel_column_width: the fontsize argument, in half points
    cv_called,      \* excel_column_width: whether the call has returned
    cv_result,      \* excel_column_width: the value returned
    w_df,           \* maximum_character_widths: the df argument
    w_alt,          \* maximum_character_widths: the alternate_headers argument
    w_res,          \* maximum_character_widths: per consider_headers value,
                    \* how the call on (w_df, that value, w_alt) ended
    args,           \* to_autosize_excel: its arguments
    pc,             \* to_autosize_excel: the statement to run next
    writer,         \* the ExcelWriter: "none", "open" or "closed"
    data,           \* the local data (line 66 / 68)
    labels,         \* the local labels (lines 76-93)
    widths,         \* the local widths (lines 95-98)
    column,         \* the loop variable of line 101
    sheet_cols,     \* the sheet: column number -> label of the frame column
                    \* that df.to_excel wrote there
    col_widths,     \* the sheet: column number -> width set by set_column
    header_row,     \* the sheet: the labels written by write_row (line 112)
    calls,          \* the calls made on the writer and its sheet, in order
    outcome         \* how the call ended: [kind, at]

cv_vars == <<cv_charwidth, cv_fonthalf, cv_called, cv_result>>
w_vars == <<w_df, w_alt, w_res>>
x_vars == <<args, pc, writer, data, labels, widths, column, sheet_cols,
            col_widths, header_row, calls, outcome>>
vars == <<cv_vars, w_vars, x_vars>>

EmptyFrame == [columns |-> << >>, nrows |-> 0, cells |-> << >>]
Running == [kind |-> "running", at |-> "none"]

cv_idle ==
    /\ cv_charwidth = 0
    /\ cv_fonthalf = DefaultFontHalf
    /\ cv_called = FALSE
    /\ cv_result = FZero

w_idle ==
    /\ w_df = EmptyFrame
    /\ w_alt = NoHeaders
    /\ w_res = [c \in BOOLEAN |-> NotCalled]

x_locals ==
    /\ pc = "ExcelWriter"
    /\ writer = "none"
    /\ data = EmptyFrame
    /\ labels = << >>
    /\ widths = << >>
    /\ column = 0
    /\ sheet_cols = << >>
    /\ col_widths = << >>
    /\ header_row = << >>
    /\ calls = << >>
    /\ outcome = Running

x_idle ==
    /\ args = [df |-> EmptyFrame, index_names |-> <<NoName>>, consider_headers |-> TRUE,
               columns |-> NoneArg, header |-> TRUE, index |-> TRUE,
               index_label |-> NoneArg, startcol |-> 0, mode |-> "w"]
    /\ x_locals

(***************************************************************************)
(* Spec: one call of to_autosize_excel.                                    *)
(***************************************************************************)
Init ==
    /\ \E df \in ExportFrames, names \in IndexNameLists, ch \in BOOLEAN,
          hd \in BOOLEAN, ix \in BOOLEAN, il \in IndexLabelArgs,
          sc \in 0..MaxStartCol, md \in {"w", "a"} :
          \E cols \in ColumnArgs(df) :
              args = [df |-> df, index_names |-> names, consider_headers |-> ch,
                      columns |-> cols, header |-> hd, index |-> ix,
                      index_label |-> il, startcol |-> sc, mode |-> md]
    /\ x_locals
    /\ cv_idle
    /\ w_idle

\* an exception leaves the function; inside the with block (lines 70-112)
\* the writer's __exit__ closes it on the way out
Raise(kind, at, inside_with) ==
    /\ pc' = "raised"
    /\ outcome' = [kind |-> kind, at |-> at]
    /\ IF inside_with
       THEN writer' = "closed" /\ calls' = Append(calls, "close")
       ELSE UNCHANGED <<writer, calls>>

\* the frame whose columns are written and sized: line 96 / 98
Sized == IF args.index THEN reset_index(data, args.index_names) ELSE data

\* lines 58-62: pandas' xlsxwriter engine raises ValueError for mode='a'
\* before any writer exists; otherwise the writer is constructed and open
Construct ==
    /\ pc = "ExcelWriter"
    /\ IF args.mode = "a"
       THEN Raise("ValueError", "ExcelWriter", FALSE)
       ELSE /\ writer' = "open"
            /\ pc' = "subset"
            /\ UNCHANGED <<calls, outcome>>
    /\ UNCHANGED <<args, data, labels, widths, column, sheet_cols, col_widths,
                   header_row, cv_vars, w_vars>>

\* lines 65-68
Subset ==
    /\ pc = "subset"
    /\ IF Truthy(args.columns)
       THEN IF Range(args.columns.items) \subseteq Range(args.df.columns)
            THEN /\ data' = select_columns(args.df, args.columns.items)
                 /\ pc' = "to_excel"
                 /\ UNCHANGED <<writer, calls, outcome>>
            ELSE /\ Raise("KeyError", "subset", FALSE)
                 /\ UNCHANGED data
       ELSE /\ data' = args.df
            /\ pc' = "to_excel"
            /\ UNCHANGED <<writer, calls, outcome>>
    /\ UNCHANGED <<args, labels, widths, column, sheet_cols, col_widths,
                   header_row, cv_vars, w_vars>>

\* what df.to_excel(writer, columns=..., index=..., startcol=...) writes: the
\* index levels when index is true, then the chosen columns, from startcol
written_columns ==
    LET chosen == IF args.columns.kind = "list" THEN args.columns.items
                  ELSE args.df.columns
        names  == IF args.index
                  THEN reset_index_names(args.index_names) \o chosen
                  ELSE chosen
    IN  [s \in args.startcol..(args.startcol + Len(names) - 1) |->
            names[s - args.startcol + 1]]

\* lines 70-74: df.to_excel writes the sheet, or the writer fails the write
\* and the error propagates unchanged
ToExcel ==
    /\ pc = "to_excel"
    /\ \/ /\ sheet_cols' = written_columns
          /\ calls' = Append(calls, "to_excel")
          /\ pc' = "labels"
          /\ UNCHANGED <<writer, outcome>>
       \/ /\ Raise("WriterError", "to_excel", TRUE)
          /\ UNCHANGED sheet_cols
    /\ UNCHANGED <<args, data, labels, widths, column, col_widths, header_row,
                   cv_vars, w_vars>>

\* lines 76-93
ResolveLabels ==
    /\ pc = "labels"
    /\ LET r == resolve_labels(args.columns, args.index, args.index_label,
                               data, args.index_names)
       IN  IF r.kind = "ok"
           THEN /\ labels' = r.value
                /\ pc' = "widths"
                /\ UNCHANGED <<writer, calls, outcome>>
           ELSE /\ Raise(r.kind, "labels", TRUE)
                /\ UNCHANGED labels
    /\ UNCHANGED <<args, data, widths, column, sheet_cols, col_widths, header_row,
                   cv_vars, w_vars>>

\* lines 95-98, and the start of the loop of line 101
ComputeWidths ==
    /\ pc = "widths"
    /\ LET r == maximum_character_widths(Sized, args.consider_headers,
                                         ListHeaders(labels))
       IN  IF r.kind = "ok"
           THEN /\ widths' = r.value
                /\ column' = args.startcol
                /\ pc' = "size"
                /\ UNCHANGED <<writer, calls, outcome>>
           ELSE /\ Raise(r.kind, "widths", TRUE)
                /\ UNCHANGED <<widths, column>>
    /\ UNCHANGED <<args, data, labels, sheet_cols, col_widths, header_row,
                   cv_vars, w_vars>>

\* lines 101-107: one iteration of the loop
SizeColumn ==
    /\ pc = "size"
    /\ column < args.startcol + Len(labels)
    /\ IF column + 1 > Len(Sized.columns)
       THEN /\ Raise("IndexError", "size", TRUE)
            /\ UNCHANGED <<col_widths, column>>
       ELSE LET column_name  == Sized.columns[column + 1]
                column_width == widths[column_name]
            IN  /\ col_widths' =
                      [s \in DOMAIN col_widths \cup {column} |->
                          IF s = column
                          THEN excel_column_width(column_width.n,
                                                  FontSize(DefaultFontHalf))
                          ELSE col_widths[s]]
                /\ calls' = Append(calls, "set_column")
                /\ column' = column + 1
                /\ UNCHANGED <<pc, writer, outcome>>
    /\ UNCHANGED <<args, data, labels, widths, sheet_cols, header_row,
                   cv_vars, w_vars>>

\* lines 109-112, and the end of the with block
RewriteHeader ==
    /\ pc = "size"
    /\ column >= args.startcol + Len(labels)
    /\ IF Truthy(args.columns) /\ ~args.consider_headers
       THEN /\ header_row' = labels
            /\ calls' = calls \o <<"write_row", "close">>
       ELSE /\ calls' = Append(calls, "close")
            /\ UNCHANGED header_row
    /\ writer' = "closed"
    /\ pc' = "return"
    /\ UNCHANGED <<args, data, labels, widths, column, sheet_cols, col_widths,
                   outcome, cv_vars, w_vars>>

\* line 115
Return ==
    /\ pc = "return"
    /\ pc' = "returned"
    /\ outcome' = [kind |-> "ok", at |-> "return"]
    /\ UNCHANGED <<args, writer, data, labels, widths, column, sheet_cols,
                   col_widths, header_row, calls, cv_vars, w_vars>>

Next ==
    \/ Construct
    \/ Subset
    \/ ToExcel
    \/ ResolveLabels
    \/ ComputeWidths
    \/ SizeColumn
    \/ RewriteHeader
    \/ Return

Spec == Init /\ [][Next]_vars

(***************************************************************************)
(* SpecConvert: excel_column_width on bounded inputs.                      *)
(***************************************************************************)
InitConvert ==
    /\ cv_charwidth \in 0..MaxCharWidth
    /\ cv_fonthalf \in 1..MaxFontHalf
    /\ cv_called = FALSE
    /\ cv_result = FZero
    /\ w_idle
    /\ x_idle

CallConvert ==
    /\ ~cv_called
    /\ cv_called' = TRUE
    /\ cv_result' = excel_column_width(cv_charwidth, FontSize(cv_fonthalf))
    /\ UNCHANGED <<cv_charwidth, cv_fonthalf, w_vars, x_vars>>

NextConvert == CallConvert

SpecConvert == InitConvert /\ [][NextConvert]_vars

(***************************************************************************)
(* SpecWidths: maximum_character_widths on bounded inputs, called with     *)
(* consider_headers true and with consider_headers false.                  *)
(***************************************************************************)
InitWidths ==
    /\ w_df \in DataFrames
    /\ w_alt \in HeaderArgs(w_df)
    /\ w_res = [c \in BOOLEAN |-> NotCalled]
    /\ cv_idle
    /\ x_idle

CallWidths(consider_headers) ==
    /\ w_res[consider_headers] = NotCalled
    /\ w_res' = [w_res EXCEPT ![consider_headers] =
                    maximum_character_widths(w_df, consider_headers, w_alt)]
    /\ UNCHANGED <<w_df, w_alt, cv_vars, x_vars>>

NextWidths == \E consider_headers \in BOOLEAN : CallWidths(consider_headers)

SpecWidths == InitWidths /\ [][NextWidths]_vars

(***************************************************************************)
(* Properties of excel_column_width (under SpecConvert).                   *)
(***************************************************************************)
\* the whole number of hundredths nearest to 0.118775 * fontsize, fontsize
\* given in half points: |ScaleNum * h / (2 * ScaleDen) * 100 - q| <= 1/2
IsNearestHundredths(q, h) ==
    LET d == ScaleNum * h - 20000 * q
    IN  (IF d < 0 THEN 0 - d ELSE d) <= 10000

\* the double next above a positive double whose mantissa is not all ones
NextUp(x) == [m |-> Add(x.m, <<1>>), e |-> x.e]

\* C9 as stated: excel_column_width returns charwidth multiplied by
\* (0.118775 * fontsize rounded to 2 decimal places), that is the double of
\* that decimal product; it returns 13.1 for (10, 11) and 0 for charwidth 0.
C9_ReturnsDecimalProduct ==
    cv_called =>
        /\ \E q \in 0..(6 * cv_fonthalf + 1) :
              /\ IsNearestHundredths(q, cv_fonthalf)
              /\ cv_result = FromRatio(cv_charwidth * q, 100)
        /\ (cv_charwidth = 10 /\ cv_fonthalf = 22) => cv_result = FromRatio(131, 10)
        /\ cv_charwidth = 0 => cv_result = FZero

\* C9 amended: excel_column_width returns the double product of charwidth
\* and the double nearest to (0.118775 * fontsize rounded to 2 decimal
\* places); for (10, 11) that is 13.100000000000001, the double next above
\* 13.1 (factor 1.31), and for charwidth 0 it is 0.
C9_ReturnsDoubleProduct ==
    cv_called =>
        /\ \E q \in 0..(6 * cv_fonthalf + 1) :
              /\ IsNearestHundredths(q, cv_fonthalf)
              /\ cv_result = FMul(FromInt(cv_charwidth), FromRatio(q, 100))
        /\ (cv_charwidth = 10 /\ cv_fonthalf = 22) =>
              cv_result = NextUp(FromRatio(131, 10))
        /\ cv_charwidth = 0 => cv_result = FZero

\* C9 witness: the call on (10, 11) has returned the double next above 13.1
C9_Witness ==
    /\ cv_called
    /\ cv_charwidth = 10
    /\ cv_fonthalf = 22
    /\ cv_result = NextUp(FromRatio(131, 10))
    /\ cv_result = FMul(FromInt(10), FromRatio(131, 100))

(***************************************************************************)
(* Properties of maximum_character_widths (under SpecWidths).              *)
(***************************************************************************)
Called(consider_headers) == w_res[consider_headers] # NotCalled

\* the number of labels of a label list or mapping
LabelCount(alt) ==
    IF alt.kind = "list" THEN Len(alt.items) ELSE Cardinality(DOMAIN alt.map)

\* a label list of the right length, or a mapping with one label per column
RightSized(df, alt) ==
    \/ alt.kind = "list" /\ Len(alt.items) = Len(df.columns)
    \/ alt.kind = "dict" /\ DOMAIN alt.map = Range(df.columns)

ValidLabels(df, alt) == alt.kind = "none" \/ RightSized(df, alt)

PositionOf(df, c) == CHOOSE i \in 1..Len(df.columns) : df.columns[i] = c

\* the header label of column c under a valid label set
HeaderLabel(df, alt, c) ==
    CASE alt.kind = "list" -> alt.items[PositionOf(df, c)]
      [] alt.kind = "dict" -> alt.map[c]
      [] OTHER -> c

\* the lengths of the textual forms of the cells of column c
CellLengths(df, c) == {Len(astype_str(df.cells[c][i])) : i \in 1..df.nrows}

IsCellMax(df, c, w) ==
    IF df.nrows = 0 THEN w.nan
    ELSE ~w.nan /\ w.n \in CellLengths(df, c) /\ \A l \in CellLengths(df, c) : l <= w.n

AllNull(df, c) == df.nrows >= 1 /\ \A i \in 1..df.nrows : df.cells[c][i] = NullCell

\* na_rep='' of line 13
DefaultNaRep == ""

\* C3: with alternate_headers absent and consider_headers false, on a frame
\* of at least one row, the call returns, and the width of every column is
\* the maximum length of the textual forms of its cells.
C3_NoHeadersGivesCellMax ==
    (Called(FALSE) /\ w_alt = NoHeaders /\ w_df.nrows >= 1) =>
        /\ w_res[FALSE].kind = "ok"
        /\ DOMAIN w_res[FALSE].value = Range(w_df.columns)
        /\ \A c \in Range(w_df.columns) : IsCellMax(w_df, c, w_res[FALSE].value[c])

\* C4: for every valid label set, the call with consider_headers true
\* returns widths that are at least the length of each column's header
\* label and never smaller than those of the call with consider_headers
\* false on the same inputs.
C4_HeadersNeverNarrow ==
    (Called(TRUE) /\ ValidLabels(w_df, w_alt)) =>
        /\ w_res[TRUE].kind = "ok"
        /\ DOMAIN w_res[TRUE].value = Range(w_df.columns)
        /\ \A c \in Range(w_df.columns) :
              /\ ~w_res[TRUE].value[c].nan
              /\ w_res[TRUE].value[c].n >= Len(HeaderLabel(w_df, w_alt, c))
        /\ (w_res[FALSE].kind = "ok") =>
              \A c \in Range(w_df.columns) :
                  ~(/\ ~w_res[FALSE].value[c].nan
                    /\ w_res[TRUE].value[c].n < w_res[FALSE].value[c].n)

\* C4 witness: both calls have returned, and a column is wider with its
\* header considered than without; another one is as wide as its cells.
C4_Witness ==
    /\ Called(TRUE) /\ Called(FALSE)
    /\ RightSized(w_df, w_alt)
    /\ w_res[TRUE].kind = "ok" /\ w_res[FALSE].kind = "ok"
    /\ \E c \in Range(w_df.columns) :
          /\ w_res[TRUE].value[c].n = Len(HeaderLabel(w_df, w_alt, c))
          /\ ~w_res[FALSE].value[c].nan
          /\ w_res[FALSE].value[c].n < w_res[TRUE].value[c].n
    /\ \E c \in Range(w_df.columns) :
          /\ w_res[TRUE].value[c].n > Len(HeaderLabel(w_df, w_alt, c))
          /\ w_res[FALSE].value[c] = w_res[TRUE].value[c]

\* C5: a label list or mapping whose number of labels differs from the
\* number of columns ends the call in ValueError, whatever the labels and
\* whatever consider_headers.
C5_CountMismatchRaises ==
    \A consider_headers \in BOOLEAN :
        (/\ Called(consider_headers)
         /\ w_alt.kind \in {"list", "dict"}
         /\ LabelCount(w_alt) # Len(w_df.columns)) =>
            w_res[consider_headers] = Raised("ValueError")

\* C5 witness: two columns and a list of one label (and, in another state,
\* of three), and both calls have ended in ValueError.
C5_Witness ==
    /\ Len(w_df.columns) = 2
    /\ w_alt.kind = "list"
    /\ Len(w_alt.items) \in {1, 3}
    /\ w_res[TRUE] = Raised("ValueError")
    /\ w_res[FALSE] = Raised("ValueError")

\* C7: null cells are measured by the length of na_rep: a column whose
\* cells are all null has, with na_rep = '', the width of its header label
\* when headers are considered, and zero or the NaN sentinel otherwise.
C7_NullsMeasuredByNaRep ==
    \A consider_headers \in BOOLEAN :
        (/\ w_res[consider_headers].kind = "ok"
         /\ ValidLabels(w_df, w_alt)) =>
            \A c \in Range(w_df.columns) :
                AllNull(w_df, c) =>
                    IF consider_headers
                    THEN w_res[consider_headers].value[c] =
                            Width(IF Len(HeaderLabel(w_df, w_alt, c)) >= Len(DefaultNaRep)
                                  THEN Len(HeaderLabel(w_df, w_alt, c))
                                  ELSE Len(DefaultNaRep))
                    ELSE \/ w_res[consider_headers].value[c].nan
                         \/ w_res[consider_headers].value[c].n = Len(DefaultNaRep)

\* C8: when a label list or mapping of the right size is supplied (to a
\* frame of at least one row), the
\* label length takes part in the maximum also when consider_headers is
\* false: every width is the larger of the label length and the cell maximum.
C8_SuppliedLabelsCount ==
    \A consider_headers \in BOOLEAN :
        (Called(consider_headers) /\ RightSized(w_df, w_alt) /\ w_df.nrows >= 1) =>
            /\ w_res[consider_headers].kind = "ok"
            /\ \A c \in Range(w_df.columns) :
                  LET w == w_res[consider_headers].value[c]
                      l == Len(HeaderLabel(w_df, w_alt, c))
                  IN  /\ ~w.nan
                      /\ w.n >= l
                      /\ w.n = l \/ IsCellMax(w_df, c, w)
                      /\ \A n \in CellLengths(w_df, c) : n <= w.n

(***************************************************************************)
(* Properties of to_autosize_excel (under Spec).                           *)
(***************************************************************************)
Ended == pc \in {"raised", "returned"}

SheetWrites == {"to_excel", "set_column", "write_row"}

\* C1: an error of the width computation is raised before anything has
\* been handed to the writer: when the call ends in such an error, no
\* to_excel, set_column or write_row has happened.
C1_WidthErrorBeforeAnyWrite ==
    outcome.at = "widths" =>
        /\ \A i \in 1..Len(calls) : calls[i] \notin SheetWrites
        /\ sheet_cols = << >>

\* C2: with header True and columns absent (and a writer that works), the
\* call uses the frame's own column labels, the index level names first
\* when index is true, sizes every written column and returns the path.
C2_DefaultsReturnPath ==
    (/\ Ended
     /\ args.header
     /\ args.columns = NoneArg
     /\ outcome.at \notin {"ExcelWriter", "to_excel"}) =>
        /\ outcome.kind = "ok"
        /\ labels = IF args.index
                    THEN reset_index_names(args.index_names) \o args.df.columns
                    ELSE args.df.columns
        /\ DOMAIN col_widths = DOMAIN sheet_cols

\* C6: once the writer has been constructed it is closed on every exit
\* path, a normal return or an error raised at any later step.
C6_WriterClosedOnExit ==
    (Ended /\ writer # "none") => writer = "closed"

\* C10: the sizing loop sets the width of sheet column startcol + i to the
\* converted width of the i-th written column, once per written column, and
\* its lookup never falls outside the frame's columns.
C10_WrittenColumnsSized ==
    /\ outcome.kind # "IndexError"
    /\ \A s \in DOMAIN col_widths :
          /\ s \in DOMAIN sheet_cols
          /\ col_widths[s] = excel_column_width(widths[sheet_cols[s]].n,
                                                FontSize(DefaultFontHalf))
    /\ pc = "returned" => DOMAIN col_widths = DOMAIN sheet_cols

====
